---- MODULE Spec2Model ----
(***************************************************************************)
(* Model of the label extraction-and-grouping pipeline of                  *)
(* shiprocket-label-sorter (label_sorter.py, app.py) and of its REST       *)
(* wrapper (shiprocket_api.py).                                            *)
(*                                                                         *)
(* A Python str is a sequence of characters; a character is written as a   *)
(* one-character string, or as "U+XXXX" when it is not printable ASCII.    *)
(***************************************************************************)
EXTENDS Integers, Sequences, FiniteSets, TLC

(***************************************************************************)
(* Characters: code points, character classes of the re module, lower().   *)
(***************************************************************************)
UpperCase == <<"A","B","C","D","E","F","G","H","I","J","K","L","M",
               "N","O","P","Q","R","S","T","U","V","W","X","Y","Z">>

LowerCase == <<"a","b","c","d","e","f","g","h","i","j","k","l","m",
               "n","o","p","q","r","s","t","u","v","w","x","y","z">>

AsciiDigits == <<"0","1","2","3","4","5","6","7","8","9">>

\* Characters outside printable ASCII that the inputs below use:
\* BEL (control), TAB, LF, e-acute (a letter), ARABIC-INDIC DIGIT THREE.
BEL == "U+0007"
TAB == "U+0009"
LF == "U+000A"
EAcute == "U+00E9"
ArabicThree == "U+0663"

\* Python's None; no str equals it.
None == <<"None">>

Range(s) == {s[n] : n \in DOMAIN s}

IndexOf(s, c) == CHOOSE n \in DOMAIN s : s[n] = c

UpperLetters == Range(UpperCase)

LowerLetters == Range(LowerCase)

DigitChars == Range(AsciiDigits)

\* ord(c): the code point, which str comparison (hence sorted()) uses.
Ord(c) ==
  IF c \in UpperLetters THEN 64 + IndexOf(UpperCase, c)
  ELSE IF c \in LowerLetters THEN 96 + IndexOf(LowerCase, c)
  ELSE IF c \in DigitChars THEN 47 + IndexOf(AsciiDigits, c)
  ELSE CASE c = BEL -> 7
         [] c = TAB -> 9
         [] c = LF -> 10
         [] c = " " -> 32
         [] c = "!" -> 33
         [] c = "," -> 44
         [] c = "-" -> 45
         [] c = "." -> 46
         [] c = "/" -> 47
         [] c = ":" -> 58
         [] c = "_" -> 95
         [] c = EAcute -> 233
         [] c = ArabicThree -> 1635

\* \d of a str pattern: any Unicode decimal digit.
IsDigit(c) == c \in DigitChars \/ c = ArabicThree

\* \w of a str pattern: Unicode letters and digits, and the underscore.
IsWord(c) ==
  \/ c \in UpperLetters
  \/ c \in LowerLetters
  \/ c = EAcute
  \/ IsDigit(c)
  \/ c = "_"

\* \s of a str pattern.
IsSpace(c) == c \in {" ", TAB, LF}

\* The character class the specification names: [A-Za-z0-9_-].
IsSafeAscii(c) ==
  c \in UpperLetters \cup LowerLetters \cup DigitChars \cup {"_", "-"}

\* str.lower(), one character.
LowerChar(c) ==
  IF c \in UpperLetters THEN LowerCase[IndexOf(UpperCase, c)] ELSE c

\* str.lower()
Lower(s) == [n \in DOMAIN s |-> LowerChar(s[n])]

\* s[:n]
Take(s, n) == IF Len(s) <= n THEN s ELSE SubSeq(s, 1, n)

\* str.replace(' ', '-')
ReplaceSpaces(s) == [n \in DOMAIN s |-> IF s[n] = " " THEN "-" ELSE s[n]]

\* [^\w\-]: the characters re.sub(r'[^\w\-]', '', s) deletes
IsKept(c) == IsWord(c) \/ c = "-"

\* re.sub(r'[^\w\-]', '', s)
StripUnsafe(s) == SelectSeq(s, IsKept)

\* sub in s: the literal sub occurs at position p (1-based) of s.
LitAt(s, p, sub) ==
  /\ p + Len(sub) - 1 <= Len(s)
  /\ \A j \in 1..Len(sub) : s[p + j - 1] = sub[j]

\* the Python test "sub in s"
Contains(s, sub) == \E p \in 1..(Len(s) + 1) : LitAt(s, p, sub)

(***************************************************************************)
(* Field Normalizer: normalize_courier, normalize_sku.                      *)
(***************************************************************************)
\* Canonical carrier names returned by normalize_courier and extract_label_info.
NameEkart == <<"E","k","a","r","t">>

NameDelhivery == <<"D","e","l","h","i","v","e","r","y">>

NameXpressbees == <<"X","p","r","e","s","s","b","e","e","s">>

NameBlueDart == <<"B","l","u","e","D","a","r","t">>

NameDTDC == <<"D","T","D","C">>

NameShadowfax == <<"S","h","a","d","o","w","f","a","x">>

NameEcomExpress == <<"E","c","o","m","E","x","p","r","e","s","s">>

Unknown == <<"U","n","k","n","o","w","n">>

\* The substrings normalize_courier looks for in the lower-cased string.
SubEkart == <<"e","k","a","r","t">>

SubDelhivery == <<"d","e","l","h","i","v","e","r","y">>

SubXpressbees == <<"x","p","r","e","s","s","b","e","e","s">>

SubBlueDart == <<"b","l","u","e","d","a","r","t">>

SubDTDC == <<"d","t","d","c">>

SubShadowfax == <<"s","h","a","d","o","w","f","a","x">>

SubEcomExpress == <<"e","c","o","m">>

\* [:30] of normalize_courier's fallback
MaxCourierLen == 30

\* [:50] of normalize_sku
MaxSkuLen == 50

\* the bug of cutting the raw string before the unsafe characters are dropped
CutThenClean(raw, n) == StripUnsafe(ReplaceSpaces(Take(raw, n)))

\* the fallback transform: re.sub(r'[^\w\-]', '', raw.replace(' ', '-'))[:n]
CleanForFilename(raw, n) == Take(StripUnsafe(ReplaceSpaces(raw)), n)

\* the bug of testing 'ecom' before the other carriers
normalize_courier_ecom_first(courier_raw) ==
  LET courier_lower == Lower(courier_raw)
  IN IF Contains(courier_lower, SubEcomExpress) THEN NameEcomExpress
     ELSE IF Contains(courier_lower, SubEkart) THEN NameEkart
     ELSE IF Contains(courier_lower, SubDelhivery) THEN NameDelhivery
     ELSE IF Contains(courier_lower, SubXpressbees) THEN NameXpressbees
     ELSE IF Contains(courier_lower, SubBlueDart) THEN NameBlueDart
     ELSE IF Contains(courier_lower, SubDTDC) THEN NameDTDC
     ELSE IF Contains(courier_lower, SubShadowfax) THEN NameShadowfax
     ELSE CleanForFilename(courier_raw, MaxCourierLen)

normalize_courier(courier_raw) ==
  LET courier_lower == Lower(courier_raw)
  IN IF Contains(courier_lower, SubEkart) THEN NameEkart
     ELSE IF Contains(courier_lower, SubDelhivery) THEN NameDelhivery
     ELSE IF Contains(courier_lower, SubXpressbees) THEN NameXpressbees
     ELSE IF Contains(courier_lower, SubBlueDart) THEN NameBlueDart
     ELSE IF Contains(courier_lower, SubDTDC) THEN NameDTDC
     ELSE IF Contains(courier_lower, SubShadowfax) THEN NameShadowfax
     ELSE IF Contains(courier_lower, SubEcomExpress) THEN NameEcomExpress
     ELSE CleanForFilename(courier_raw, MaxCourierLen)

normalize_sku(sku_raw) == CleanForFilename(sku_raw, MaxSkuLen)

(***************************************************************************)
(* Label Field Extractor: extract_label_info.                              *)
(***************************************************************************)
\* A literal of a pattern compiled with re.IGNORECASE, at position p.
LitAtIgnoreCase(s, p, lit) ==
  /\ p + Len(lit) - 1 <= Len(s)
  /\ \A j \in 1..Len(lit) : LowerChar(s[p + j - 1]) = LowerChar(lit[j])

\* The longest run of \s characters of s that starts at position p.
SpaceRun(s, p) ==
  CHOOSE k \in 0..Len(s) :
    /\ \A j \in 0..(k - 1) : p + j <= Len(s) /\ IsSpace(s[p + j])
    /\ ~(p + k <= Len(s) /\ IsSpace(s[p + k]))

\* The end of the longest run of [^\n] characters that starts at position p.
LineEnd(s, p) ==
  CHOOSE q \in p..Len(s) :
    /\ \A j \in p..q : s[j] # LF
    /\ ~(q + 1 <= Len(s) /\ s[q + 1] # LF)

Min(S) == CHOOSE x \in S : \A y \in S : x <= y

Max(S) == CHOOSE x \in S : \A y \in S : y <= x

\* courier_patterns: head, then \s* and tail where the pattern has them, then
\* [^\n]* (which matches the empty string, so it never decides a match).
courier_patterns == <<
  [head |-> <<"E","k","a","r","t">>, tail |-> <<>>, name |-> NameEkart],
  [head |-> <<"D","e","l","h","i","v","e","r","y">>, tail |-> <<>>, name |-> NameDelhivery],
  [head |-> <<"X","p","r","e","s","s","b","e","e","s">>, tail |-> <<>>, name |-> NameXpressbees],
  [head |-> <<"B","l","u","e","D","a","r","t">>, tail |-> <<>>, name |-> NameBlueDart],
  [head |-> <<"D","T","D","C">>, tail |-> <<>>, name |-> NameDTDC],
  [head |-> <<"S","h","a","d","o","w","f","a","x">>, tail |-> <<>>, name |-> NameShadowfax],
  [head |-> <<"E","c","o","m">>, tail |-> <<"E","x","p","r","e","s","s">>, name |-> NameEcomExpress] >>

\* re.search(pattern, page_text, re.IGNORECASE) is not None
CourierPatternFound(pat, page_text) ==
  \E p \in 1..Len(page_text) :
    /\ LitAtIgnoreCase(page_text, p, pat.head)
    /\ \/ pat.tail = <<>>
       \/ \E k \in 0..SpaceRun(page_text, p + Len(pat.head)) :
            LitAtIgnoreCase(page_text, p + Len(pat.head) + k, pat.tail)

\* the bug of leaving the break out: the last pattern found names the courier
LastCourier(page_text) ==
  LET hits == {k \in DOMAIN courier_patterns :
                 CourierPatternFound(courier_patterns[k], page_text)}
  IN IF hits = {} THEN Unknown ELSE courier_patterns[Max(hits)].name

\* The loop over courier_patterns with its break: the first pattern of the
\* list that is found names the courier.
FirstCourier(page_text) ==
  LET hits == {k \in DOMAIN courier_patterns :
                 CourierPatternFound(courier_patterns[k], page_text)}
  IN IF hits = {} THEN Unknown ELSE courier_patterns[Min(hits)].name

LitSku == <<"S","K","U",":">>

LitInvoiceDate == <<"I","n","v","o","i","c","e"," ","D","a","t","e",":">>

\* r'SKU:\s*([^\n]+)' tried at position p: \s* is greedy and gives characters
\* back until [^\n]+ finds a character that is not a newline.
SkuMatchAt(s, p) ==
  IF ~LitAt(s, p, LitSku) THEN None
  ELSE LET a == p + Len(LitSku)
           ks == {k \in 0..SpaceRun(s, a) : a + k <= Len(s) /\ s[a + k] # LF}
       IN IF ks = {} THEN None
          ELSE LET b == a + Max(ks)
               IN SubSeq(s, b, LineEnd(s, b))

\* group(1) of re.search(r'SKU:\s*([^\n]+)', s), or None
SkuSearch(s) ==
  LET ps == {p \in 1..Len(s) : SkuMatchAt(s, p) # None}
  IN IF ps = {} THEN None ELSE SkuMatchAt(s, Min(ps))

\* str.strip(): what lies between the first and the last character that is
\* not whitespace
Strip(s) ==
  LET solid == {j \in DOMAIN s : ~IsSpace(s[j])}
  IN IF solid = {} THEN <<>> ELSE SubSeq(s, Min(solid), Max(solid))

\* \d{4}-\d{2}-\d{2} at position q
DateAt(s, q) ==
  /\ q + 9 <= Len(s)
  /\ \A j \in {0, 1, 2, 3, 5, 6, 8, 9} : IsDigit(s[q + j])
  /\ s[q + 4] = "-"
  /\ s[q + 7] = "-"

\* r'Invoice Date:\s*(\d{4}-\d{2}-\d{2})' tried at position p
InvoiceDateMatchAt(s, p) ==
  IF ~LitAt(s, p, LitInvoiceDate) THEN None
  ELSE LET a == p + Len(LitInvoiceDate)
           ks == {k \in 0..SpaceRun(s, a) : DateAt(s, a + k)}
       IN IF ks = {} THEN None
          ELSE SubSeq(s, a + Max(ks), a + Max(ks) + 9)

\* group(1) of re.search(r'Invoice Date:\s*(\d{4}-\d{2}-\d{2})', s), or None
InvoiceDateSearch(s) ==
  LET ps == {p \in 1..Len(s) : InvoiceDateMatchAt(s, p) # None}
  IN IF ps = {} THEN None ELSE InvoiceDateMatchAt(s, Min(ps))

\* group(1) of re.search(r'(\d{4}-\d{2}-\d{2})', s), or None
BareDateSearch(s) ==
  LET ps == {p \in 1..Len(s) : DateAt(s, p)}
  IN IF ps = {} THEN None ELSE SubSeq(s, Min(ps), Min(ps) + 9)

\* The days the clock of a run can show, in chronological order.
Calendar == <<
  [year |-> 2024, month |-> 1, day |-> 15],
  [year |-> 2024, month |-> 12, day |-> 31] >>

\* The decimal digit of n at the place of 10^k.
DigitAt(n, k) == AsciiDigits[((n \div (10 ^ k)) % 10) + 1]

\* datetime.strftime('%Y-%m-%d'): zero-padded year, month and day
strftime(d) ==
  <<DigitAt(d.year, 3), DigitAt(d.year, 2), DigitAt(d.year, 1), DigitAt(d.year, 0), "-",
    DigitAt(d.month, 1), DigitAt(d.month, 0), "-",
    DigitAt(d.day, 1), DigitAt(d.day, 0)>>

\* the bug of a fixed default date where the day of the run is meant
extract_label_info_epoch(page_text, today) ==
  LET sku_match == SkuSearch(page_text)
      date_match == InvoiceDateSearch(page_text)
      date_match2 == BareDateSearch(page_text)
  IN [courier |-> FirstCourier(page_text),
      sku |-> IF sku_match # None THEN normalize_sku(Strip(sku_match))
              ELSE Unknown,
      date |-> IF date_match # None THEN date_match
               ELSE IF date_match2 # None THEN date_match2
               ELSE <<"1","9","7","0","-","0","1","-","0","1">>]

\* the bug of trying the bare date pattern before the "Invoice Date:" pattern
extract_label_info_bare_first(page_text, today) ==
  LET sku_match == SkuSearch(page_text)
      date_match == BareDateSearch(page_text)
  IN [courier |-> FirstCourier(page_text),
      sku |-> IF sku_match # None THEN normalize_sku(Strip(sku_match))
              ELSE Unknown,
      date |-> IF date_match # None THEN date_match ELSE strftime(today)]

\* extract_label_info(page_text), with the day datetime.now() shows
extract_label_info(page_text, today) ==
  LET sku_match == SkuSearch(page_text)
      date_match == InvoiceDateSearch(page_text)
      date_match2 == BareDateSearch(page_text)
  IN [courier |-> FirstCourier(page_text),
      sku |-> IF sku_match # None THEN normalize_sku(Strip(sku_match))
              ELSE Unknown,
      date |-> IF date_match # None THEN date_match
               ELSE IF date_match2 # None THEN date_match2
               ELSE strftime(today)]

(***************************************************************************)
(* Grouping Engine and Output Assembler: sort_labels, in its batch form    *)
(* (label_sorter.py, a directory of files) and its interactive form        *)
(* (app.py, a zip archive).                                                *)
(***************************************************************************)
\* str comparison: lexicographic by code point, a proper prefix is smaller.
StrLess(a, b) ==
  \E k \in 1..Len(b) :
    /\ \A j \in 1..(k - 1) : j <= Len(a) /\ a[j] = b[j]
    /\ k > Len(a) \/ Ord(a[k]) < Ord(b[k])

\* tuple comparison of two (date, courier, sku) keys
KeyLess(k1, k2) ==
  \/ StrLess(k1[1], k2[1])
  \/ k1[1] = k2[1] /\ StrLess(k1[2], k2[2])
  \/ k1[1] = k2[1] /\ k1[2] = k2[2] /\ StrLess(k1[3], k2[3])

\* sorted(items) of a dict's items, whose keys are pairwise different
RECURSIVE SortedItems(_)
SortedItems(items) ==
  IF items = {} THEN <<>>
  ELSE LET m == CHOOSE x \in items : \A y \in items \ {x} : KeyLess(x.key, y.key)
       IN <<m>> \o SortedItems(items \ {m})

\* the bug of leaving sorted() out: the dict's insertion order
unsorted_groups(g) == g

\* sorted(groups.items()); groups holds its items in insertion order
sorted_groups(g) == SortedItems(Range(g))

\* the bug groups[key] = [i]
overwrite_group(g, key, idx) ==
  IF \E j \in DOMAIN g : g[j].key = key
  THEN [j \in DOMAIN g |->
          IF g[j].key = key THEN [g[j] EXCEPT !.pages = <<idx>>] ELSE g[j]]
  ELSE Append(g, [key |-> key, pages |-> <<idx>>])

\* the bug of putting the index in front: groups[key].insert(0, i)
prepend_to_group(g, key, idx) ==
  IF \E j \in DOMAIN g : g[j].key = key
  THEN [j \in DOMAIN g |->
          IF g[j].key = key THEN [g[j] EXCEPT !.pages = <<idx>> \o @] ELSE g[j]]
  ELSE Append(g, [key |-> key, pages |-> <<idx>>])

\* groups[key].append(i) on a defaultdict(list)
append_to_group(g, key, idx) ==
  IF \E j \in DOMAIN g : g[j].key = key
  THEN [j \in DOMAIN g |->
          IF g[j].key = key THEN [g[j] EXCEPT !.pages = Append(@, idx)] ELSE g[j]]
  ELSE Append(g, [key |-> key, pages |-> <<idx>>])

\* the bug of naming the file by date and courier only
Filename_without_sku(date, courier, sku) ==
  date \o <<"_">> \o courier \o <<".","p","d","f">>

\* the bug of naming the file courier_date_sku.pdf
Filename_courier_first(date, courier, sku) ==
  courier \o <<"_">> \o date \o <<"_">> \o sku \o <<".","p","d","f">>

\* f"{date}_{courier}_{sku}.pdf"
Filename(date, courier, sku) ==
  date \o <<"_">> \o courier \o <<"_">> \o sku \o <<".","p","d","f">>

\* page.extract_text() or ''
text_or_empty(t) == IF t = None \/ t = <<>> THEN <<>> ELSE t

\* The page texts the documents are made of.
LabelEkart == <<"E","k","a","r","t"," ","L","o","g","i","s","t","i","c","s",LF,"S","K","U",":"," ","A","B","C","-","1","2","3",LF,"I","n","v","o","i","c","e"," ","D","a","t","e",":"," ","2","0","2","4","-","0","1","-","1","5">>

LabelDelhivery == <<"D","e","l","h","i","v","e","r","y"," ","E","x","p","r","e","s","s",LF,"S","K","U",":"," ","X","Y","Z","_","9","9",LF,"I","n","v","o","i","c","e"," ","D","a","t","e",":"," ","2","0","2","4","-","0","1","-","1","6">>

LabelNoFields == <<"v","i","a"," ","d","e","l","h","i","v","e","r","y",","," ","E","K","A","R","T">>

LabelBlank == <<" ",LF>>

LabelSkuOnly == <<"S","h","a","d","o","w","f","a","x",LF,"S","K","U",":"," ","Z"," ","9">>

PageTexts == {LabelEkart, LabelDelhivery, LabelNoFields, LabelBlank, LabelSkuOnly, None}

\* The longest document.
MaxPages == 3

RECURSIVE SeqsUpTo(_, _)
SeqsUpTo(S, n) ==
  IF n = 0 THEN {<<>>}
  ELSE LET shorter == SeqsUpTo(S, n - 1)
       IN shorter \cup {Append(q, x) : q \in {r \in shorter : Len(r) = n - 1}, x \in S}

\* A source document: a file that is missing, a file that is no PDF, or a PDF.
Missing == [exists |-> FALSE, parses |-> FALSE, texts |-> <<>>]

Corrupt == [exists |-> TRUE, parses |-> FALSE, texts |-> <<>>]

Documents ==
  {Missing, Corrupt}
    \cup {[exists |-> TRUE, parses |-> TRUE, texts |-> t] : t \in SeqsUpTo(PageTexts, MaxPages)}

\* PdfReader(...).pages: the page objects, each known by its place in the source
ReaderPages(doc) == [n \in 1..Len(doc.texts) |-> n - 1]

\* page.extract_text()
extract_text(doc, page) == doc.texts[page + 1]

\* extract_label_info is pure: its value on every page text of the documents
\* and every day of the calendar, worked out once.
label_table ==
  {<<t, d, extract_label_info(t, Calendar[d])>> :
     t \in {text_or_empty(x) : x \in PageTexts}, d \in DOMAIN Calendar}

label_info(t, d) == (CHOOSE r \in label_table : r[1] = t /\ r[2] = d)[3]

VARIABLES
  fn,           \* harness of the pure functions: the function called
  arg,          \* ... its argument
  ret,          \* ... <<>>, or its result as the one element
  mode,         \* "batch" (label_sorter.py) or "zip" (app.py)
  input_pdf,    \* the source document
  clock,        \* the day datetime.now() shows, an index of Calendar
  pc,           \* position of sort_labels
  reader,       \* reader.pages
  total_pages,
  groups,       \* the defaultdict, items in insertion order
  i,            \* pages scanned so far
  dates_read,   \* the days datetime.now() has shown to this run
  todo,         \* what is left of sorted(groups.items())
  results,
  zf,           \* entries of the zip archive being written
  written,      \* the names of the files written by this call, in order
  output_dir,   \* the output directory: whether it exists, and its files
  returned,     \* <<>>, or the return value as the one element
  previous      \* <<>>, or what the run before returned, grouped and read

\* A ShiprocketAPI object (shiprocket_api.py) and the call running on it.
VARIABLES
  token,        \* self.token: <<>> for None, or the token as the one element
  token_expiry, \* self.token_expiry: <<>> for None, or the hour as the one element
  now,          \* datetime.now(), in hours
  api_pc,       \* position of the method running on the object
  op,           \* the method the caller called
  shipment_ids, \* bulk_ship_orders: its argument
  rest,         \* ... the ids the for loop has not reached yet
  ship_results, \* ... results
  attempted,    \* ... the ids assign_awb was called with, in order
  headers,      \* <<>>, or what _get_headers returned as the one element
  calls,        \* the calls made on the object so far
  ticks         \* the times the clock was advanced so far

\* Two calls of sort_labels that run at the same time (two sessions of the
\* interactive form, two threads or processes of the batch form); or the one
\* call of the interactive form that runs beside the batch form.
VARIABLES
  inv,          \* the locals of each call: its position, reader, results, ...
  heap          \* the defaultdict objects, by their identity

vars == <<fn, arg, ret, mode, input_pdf, clock, pc, reader, total_pages, groups, i,
          dates_read, todo, results, zf, written, output_dir, returned, previous,
          token, token_expiry, now, api_pc, op, shipment_ids, rest, ship_results,
          attempted, headers, calls, ticks, inv, heap>>

par == <<inv, heap>>

client == <<token, token_expiry, now, api_pc, op, shipment_ids, rest, ship_results,
            attempted, headers, calls, ticks>>

harness == <<fn, arg, ret>>

pipeline == <<mode, input_pdf, pc, reader, total_pages, groups, i, dates_read, todo,
              results, zf, written, output_dir, returned, previous>>

(***************************************************************************)
(* sort_labels, step by step.                                              *)
(***************************************************************************)
NoDirectory == [exists |-> FALSE, files |-> {}]

\* open(output_path, 'wb') and writer.write(f): the file of that name is
\* created, or replaced when it is there already.
\* A file, or an archive entry, that holds the pages given (by their place in
\* the source), and what open(path, 'wb') leaves when the write fails.
WholeFile(name, data) == [name |-> name, data |-> data, whole |-> TRUE]

TruncatedFile(name) == [name |-> name, data |-> <<>>, whole |-> FALSE]

write_file(dir, file) ==
  [dir EXCEPT !.files = {f \in @ : f.name # file.name} \cup {file}]

\* The state of a call that has not opened its document yet.
Fresh ==
  /\ pc = "start"
  /\ reader = <<>>
  /\ total_pages = 0
  /\ groups = <<>>
  /\ i = 0
  /\ dates_read = {}
  /\ todo = <<>>
  /\ results = <<>>
  /\ zf = <<>>
  /\ written = <<>>
  /\ returned = <<>>

HarnessIdle == fn = "none" /\ arg = <<>> /\ ret = <<>>

\* No call of sort_labels runs beside the one of the pipeline.
ParIdle == inv = <<>> /\ heap = <<>>

\* ShiprocketAPI.__init__: no token, no expiry; no call made yet.
ClientNew ==
  /\ token = <<>>
  /\ token_expiry = <<>>
  /\ now = 0
  /\ api_pc = "idle"
  /\ op = "none"
  /\ shipment_ids = <<>>
  /\ rest = <<>>
  /\ ship_results = <<>>
  /\ attempted = <<>>
  /\ headers = <<>>
  /\ calls = 0
  /\ ticks = 0

Init ==
  /\ HarnessIdle
  /\ mode \in {"batch", "zip"}
  /\ input_pdf \in Documents
  /\ clock \in DOMAIN Calendar
  /\ Fresh
  /\ output_dir = NoDirectory
  /\ previous = <<>>
  /\ ClientNew
  /\ ParIdle

\* The document cannot be read: FileNotFoundError of the batch form before
\* anything else, an exception of PdfReader after the batch form has made
\* the output directory.
OpenFails ==
  /\ pc = "start"
  /\ ~input_pdf.parses
  /\ pc' = "error"
  /\ output_dir' = IF mode = "batch" /\ input_pdf.exists
                   THEN [output_dir EXCEPT !.exists = TRUE]
                   ELSE output_dir
  /\ UNCHANGED <<par, client, harness, mode, input_pdf, clock, reader, total_pages, groups, i,
                 dates_read, todo, results, zf, written, returned, previous>>

\* the bug of one map shared by all calls (a module-level groups)
shared_groups == groups

\* groups = defaultdict(list): a map of its own for every call
new_groups == <<>>

\* mkdir (batch), PdfReader, total_pages = len(reader.pages), groups = defaultdict(list)
Open ==
  /\ pc = "start"
  /\ input_pdf.parses
  /\ reader' = ReaderPages(input_pdf)
  /\ total_pages' = Len(input_pdf.texts)
  /\ groups' = new_groups
  /\ i' = 0
  /\ output_dir' = IF mode = "batch" THEN [output_dir EXCEPT !.exists = TRUE]
                   ELSE output_dir
  /\ pc' = "scan"
  /\ UNCHANGED <<par, client, harness, mode, input_pdf, clock, dates_read, todo, results, zf,
                 written, returned, previous>>

\* One turn of "for i, page in enumerate(reader.pages)".
ScanPage ==
  /\ pc = "scan"
  /\ i < Len(reader)
  /\ LET page == reader[i + 1]
         text == text_or_empty(extract_text(input_pdf, page))
         info == label_info(text, clock)
         key == <<info.date, info.courier, info.sku>>
     IN groups' = append_to_group(groups, key, i)
  /\ dates_read' = dates_read \cup {clock}
  /\ i' = i + 1
  /\ UNCHANGED <<par, client, harness, mode, input_pdf, clock, pc, reader, total_pages, todo,
                 results, zf, written, output_dir, returned, previous>>

\* The scan is over: results = [], and the for statement evaluates
\* sorted(groups.items()) once.
BeginEmit ==
  /\ pc = "scan"
  /\ i = Len(reader)
  /\ todo' = sorted_groups(groups)
  /\ results' = <<>>
  /\ zf' = <<>>
  /\ written' = <<>>
  /\ pc' = "emit"
  /\ UNCHANGED <<par, client, harness, mode, input_pdf, clock, reader, total_pages, groups, i,
                 dates_read, output_dir, returned, previous>>

\* writer = PdfWriter(); for idx in page_indices: writer.add_page(reader.pages[idx])
sub_document(page_indices) ==
  [n \in DOMAIN page_indices |-> reader[page_indices[n] + 1]]

\* the bug of counting files where pages are meant
result_entry_one_label(filename, key, page_indices) ==
  [file |-> filename, date |-> key[1], courier |-> key[2], sku |-> key[3],
   labels |-> 1]

\* The summary entry of one group.
result_entry(filename, key, page_indices) ==
  [file |-> filename, date |-> key[1], courier |-> key[2], sku |-> key[3],
   labels |-> Len(page_indices)]

\* One turn of "for (date, courier, sku), page_indices in sorted(...)".
EmitGroup ==
  /\ pc = "emit"
  /\ todo # <<>>
  /\ LET key == Head(todo).key
         page_indices == Head(todo).pages
         filename == Filename(key[1], key[2], key[3])
         writer == sub_document(page_indices)
     IN /\ IF mode = "batch"
           THEN /\ output_dir' = write_file(output_dir, WholeFile(filename, writer))
                /\ zf' = zf
           ELSE /\ zf' = Append(zf, WholeFile(filename, writer))
                /\ output_dir' = output_dir
        /\ written' = Append(written, filename)
        /\ results' = Append(results, result_entry(filename, key, page_indices))
  /\ todo' = Tail(todo)
  /\ UNCHANGED <<par, client, harness, mode, input_pdf, clock, pc, reader, total_pages, groups, i,
                 dates_read, returned, previous>>

\* Writing a group fails (open() or write() raises): the exception leaves
\* sort_labels. A file that open() has created stays, truncated.
EmitFails ==
  /\ pc = "emit"
  /\ todo # <<>>
  /\ LET key == Head(todo).key
         filename == Filename(key[1], key[2], key[3])
     IN \E opened \in BOOLEAN :
          output_dir' = IF mode = "batch" /\ opened
                        THEN write_file(output_dir, TruncatedFile(filename))
                        ELSE output_dir
  /\ pc' = "error"
  /\ UNCHANGED <<par, client, harness, mode, input_pdf, clock, reader, total_pages, groups, i,
                 dates_read, todo, results, zf, written, returned, previous>>

\* return: the batch form's dict, the interactive form's tuple
Return ==
  /\ pc = "emit"
  /\ todo = <<>>
  /\ returned' = <<[total_labels |-> total_pages,
                    files |-> results,
                    package |-> IF mode = "batch" THEN output_dir.files ELSE Range(zf)]>>
  /\ pc' = "done"
  /\ UNCHANGED <<par, client, harness, mode, input_pdf, clock, reader, total_pages, groups, i,
                 dates_read, todo, results, zf, written, output_dir, previous>>

\* Midnight passes.
Tick ==
  /\ pc \in {"start", "scan", "emit"}
  /\ clock < Len(Calendar)
  /\ clock' = clock + 1
  /\ UNCHANGED <<par, client, harness, pipeline>>

\* The caller runs sort_labels on the same document once more. The locals of
\* the call that returned are dead, and the new call assigns each before it
\* reads it; the output directory of the batch form is still there.
Rerun ==
  /\ pc = "done"
  /\ previous = <<>>
  /\ previous' = <<[returned |-> returned[1], groups |-> groups, dates |-> dates_read]>>
  /\ pc' = "start"
  /\ dates_read' = {}
  /\ returned' = <<>>
  /\ UNCHANGED <<par, client, harness, mode, input_pdf, clock, reader, total_pages, groups, i,
                 todo, results, zf, written, output_dir>>

Next ==
  \/ OpenFails
  \/ Open
  \/ ScanPage
  \/ BeginEmit
  \/ EmitGroup
  \/ EmitFails
  \/ Return
  \/ Tick
  \/ Rerun

Spec == Init /\ [][Next]_vars

(***************************************************************************)
(* The pure functions, called on their own.                                *)
(***************************************************************************)
\* The longest of the short raw strings, and of the units the long ones repeat.
MaxRawLen == 2

\* How far the long raw strings reach to either side of a length bound.
Slack == 1

RawAlphabet == {"a", "Z", "7", "_", "-", " ", "!", LF, BEL, EAcute, ArabicThree}

ShortStrings == SeqsUpTo(RawAlphabet, MaxRawLen)

\* unit, repeated up to length n
Cycle(unit, n) == [k \in 1..n |-> unit[((k - 1) % Len(unit)) + 1]]

LongLengths ==
  ((MaxCourierLen - Slack)..(MaxCourierLen + Slack))
    \cup ((MaxSkuLen - Slack)..(MaxSkuLen + Slack))

LongStrings ==
  {a \o Cycle(unit, n) : a \in {<<>>, <<"!", " ">>},
                         unit \in SeqsUpTo({"a", " ", "!", EAcute}, MaxRawLen) \ {<<>>},
                         n \in LongLengths}

\* Raw courier strings that name a carrier.
CarrierWords ==
  {<<"e","k","a","r","t">>,
   <<"E","k","a","r","t">>,
   <<"E","K","A","R","T">>,
   <<"d","e","l","h","i","v","e","r","y">>,
   <<"D","e","l","h","i","v","e","r","y">>,
   <<"x","p","r","e","s","s","b","e","e","s">>,
   <<"X","p","r","e","s","s","b","e","e","s">>,
   <<"b","l","u","e","d","a","r","t">>,
   <<"B","l","u","e","D","a","r","t">>,
   <<"B","l","u","e"," ","D","a","r","t">>,
   <<"d","t","d","c">>,
   <<"D","T","D","C">>,
   <<"s","h","a","d","o","w","f","a","x">>,
   <<"S","h","a","d","o","w","f","a","x">>,
   <<"e","c","o","m">>,
   <<"E","c","o","m","E","x","p","r","e","s","s">>,
   <<"E","c","o","m"," ","E","x","p","r","e","s","s">>,
   <<"d","t","d","c"," ","e","k","a","r","t">>,
   <<"e","c","o","m"," ","d","e","l","h","i","v","e","r","y">>}

Affixes == {<<>>, <<" ">>, <<"x", "!">>}

CarrierStrings == {a \o w \o b : a \in Affixes, w \in CarrierWords, b \in Affixes}

RawStrings == ShortStrings \cup LongStrings \cup CarrierStrings

\* The lines page texts are put together from.
CourierMentions ==
  {<<>>,
   <<"E","k","a","r","t">>,
   <<"D","E","L","H","I","V","E","R","Y">>,
   <<"x","p","r","e","s","s","b","e","e","s">>,
   <<"E","c","o","m"," ","E","x","p","r","e","s","s">>,
   <<"e","c","o","m">>,
   <<"S","h","a","d","o","w","f","a","x">>,
   <<"E","c","o","m",LF," ","e","x","p","r","e","s","s">>}

SkuLines ==
  {<<>>,
   <<"S","K","U",":"," ","A","B","C","-","1","2","3">>,
   <<"S","K","U",":"," ">>,
   <<"s","k","u",":"," ","l","o","w">>,
   <<"S","K","U",":",LF,"X","Y"," ","9">>,
   <<"S","K","U",":"," ","a","/","b"," ",EAcute,"!",LF,"S","K","U",":"," ","t","w","o">>,
   <<"S","K","U",":",TAB," ",LF>>}

DateLines ==
  {<<>>,
   <<"I","n","v","o","i","c","e"," ","D","a","t","e",":"," ","2","0","2","4","-","0","1","-","1","5">>,
   <<"2","0","2","3","-","1","2","-","3","1">>,
   <<"2","0","2","3","-","1","2","-","3","1"," ","I","n","v","o","i","c","e"," ","D","a","t","e",":",LF,"2","0","2","4","-","0","1","-","1","5">>,
   <<"I","n","v","o","i","c","e"," ","D","a","t","e",":"," ","n","/","a"," ","2","0","2","4","-","0","2","-","0","2">>,
   <<"2","0","2","4","-","1","-","5"," ",ArabicThree,"0","2","4","-","0","1","-","0","5">>}

ExtractTexts ==
  {<<>>}
    \cup {a \o <<" ">> \o b \o <<LF>> \o s \o <<LF>> \o d :
            a \in CourierMentions, b \in CourierMentions, s \in SkuLines, d \in DateLines}

\* The pipeline does not run while a pure function is called on its own.
PipelineIdle ==
  /\ mode = "zip"
  /\ input_pdf = Missing
  /\ Fresh
  /\ output_dir = NoDirectory
  /\ previous = <<>>

InitNorm ==
  /\ fn = "none"
  /\ arg \in RawStrings
  /\ ret = <<>>
  /\ clock = 1
  /\ PipelineIdle
  /\ ClientNew
  /\ ParIdle

CallNormalizeSku ==
  /\ fn = "none"
  /\ fn' = "normalize_sku"
  /\ ret' = <<normalize_sku(arg)>>
  /\ UNCHANGED <<arg, clock, pipeline, client, par>>

CallNormalizeCourier ==
  /\ fn = "none"
  /\ fn' = "normalize_courier"
  /\ ret' = <<normalize_courier(arg)>>
  /\ UNCHANGED <<arg, clock, pipeline, client, par>>

NextNorm == CallNormalizeSku \/ CallNormalizeCourier

SpecNorm == InitNorm /\ [][NextNorm]_vars

InitExtract ==
  /\ fn = "none"
  /\ arg \in ExtractTexts
  /\ ret = <<>>
  /\ clock \in DOMAIN Calendar
  /\ PipelineIdle
  /\ ClientNew
  /\ ParIdle

CallExtract ==
  /\ fn = "none"
  /\ fn' = "extract_label_info"
  /\ ret' = <<extract_label_info(arg, Calendar[clock])>>
  /\ UNCHANGED <<arg, clock, pipeline, client, par>>

NextExtract == CallExtract

SpecExtract == InitExtract /\ [][NextExtract]_vars

(***************************************************************************)
(* Two calls of sort_labels at the same time, each on a document that      *)
(* parses, their steps interleaved in any order. What a call keeps in      *)
(* local variables is its own; the clock and, in the batch form, the       *)
(* output directory are the same for both.                                 *)
(***************************************************************************)
Invocations == {1, 2}

\* The longest document of a concurrent call.
MaxParPages == 2

ParTexts == {LabelEkart, LabelNoFields}

ParDocuments ==
  {[exists |-> TRUE, parses |-> TRUE, texts |-> t] : t \in SeqsUpTo(ParTexts, MaxParPages)}

\* The locals of a call that has not begun; groups names no map yet.
NewCall(doc) ==
  [pc |-> "start", doc |-> doc, reader |-> <<>>, total_pages |-> 0, groups |-> 0,
   i |-> 0, days |-> <<>>, todo |-> <<>>, results |-> <<>>, zf |-> <<>>,
   returned |-> <<>>]

\* The variables of the pipeline that the concurrent calls leave alone.
solo == <<mode, input_pdf, pc, reader, total_pages, groups, i, dates_read, todo,
          results, zf, written, returned, previous>>

InitPar ==
  /\ HarnessIdle
  /\ mode \in {"batch", "zip"}
  /\ input_pdf = Missing
  /\ clock \in DOMAIN Calendar
  /\ Fresh
  /\ output_dir = NoDirectory
  /\ previous = <<>>
  /\ ClientNew
  /\ inv \in {[k \in Invocations |-> NewCall(d[k])] : d \in [Invocations -> ParDocuments]}
  /\ heap = [k \in Invocations |-> <<>>]

\* PdfReader(...).pages of call k: page objects of its own document
par_pages(k, doc) == [n \in 1..Len(doc.texts) |-> [document |-> k, index |-> n - 1]]

\* the bug of one module-level map that every call uses
module_map(k) == 1

\* defaultdict(list) in call k: a new object, no other call's
new_map(k) == k

ParOpen(k) ==
  /\ inv[k].pc = "start"
  /\ inv' = [inv EXCEPT ![k] = [@ EXCEPT !.reader = par_pages(k, inv[k].doc),
                                        !.total_pages = Len(inv[k].doc.texts),
                                        !.groups = new_map(k),
                                        !.pc = "scan"]]
  /\ heap' = [heap EXCEPT ![new_map(k)] = <<>>]
  /\ output_dir' = IF mode = "batch" THEN [output_dir EXCEPT !.exists = TRUE]
                   ELSE output_dir
  /\ UNCHANGED <<client, harness, clock, solo>>

ParScanPage(k) ==
  /\ inv[k].pc = "scan"
  /\ inv[k].i < Len(inv[k].reader)
  /\ LET page == inv[k].reader[inv[k].i + 1]
         text == text_or_empty(extract_text(inv[k].doc, page.index))
         info == label_info(text, clock)
         key == <<info.date, info.courier, info.sku>>
     IN heap' = [heap EXCEPT ![inv[k].groups] = append_to_group(@, key, inv[k].i)]
  /\ inv' = [inv EXCEPT ![k] = [@ EXCEPT !.i = @ + 1, !.days = Append(@, clock)]]
  /\ UNCHANGED <<client, harness, clock, solo, output_dir>>

ParBeginEmit(k) ==
  /\ inv[k].pc = "scan"
  /\ inv[k].i = Len(inv[k].reader)
  /\ inv' = [inv EXCEPT ![k] = [@ EXCEPT !.todo = sorted_groups(heap[inv[k].groups]),
                                        !.results = <<>>,
                                        !.zf = <<>>,
                                        !.pc = "emit"]]
  /\ UNCHANGED <<client, harness, clock, solo, output_dir, heap>>

ParEmitGroup(k) ==
  /\ inv[k].pc = "emit"
  /\ inv[k].todo # <<>>
  /\ LET key == Head(inv[k].todo).key
         page_indices == Head(inv[k].todo).pages
         filename == Filename(key[1], key[2], key[3])
         writer == [n \in DOMAIN page_indices |-> inv[k].reader[page_indices[n] + 1]]
         entry == result_entry(filename, key, page_indices)
     IN IF mode = "batch"
        THEN /\ output_dir' = write_file(output_dir, WholeFile(filename, writer))
             /\ inv' = [inv EXCEPT ![k] = [@ EXCEPT !.results = Append(@, entry),
                                                   !.todo = Tail(@)]]
        ELSE /\ output_dir' = output_dir
             /\ inv' = [inv EXCEPT ![k] =
                          [@ EXCEPT !.results = Append(@, entry),
                                    !.zf = Append(@, WholeFile(filename, writer)),
                                    !.todo = Tail(@)]]
  /\ UNCHANGED <<client, harness, clock, solo, heap>>

ParReturn(k) ==
  /\ inv[k].pc = "emit"
  /\ inv[k].todo = <<>>
  /\ inv' = [inv EXCEPT ![k] =
               [@ EXCEPT !.returned = <<[total_labels |-> inv[k].total_pages,
                                          files |-> inv[k].results]>>,
                         !.pc = "done"]]
  /\ UNCHANGED <<client, harness, clock, solo, output_dir, heap>>

\* Midnight passes while a call runs.
ParTick ==
  /\ \E k \in Invocations : inv[k].pc # "done"
  /\ clock < Len(Calendar)
  /\ clock' = clock + 1
  /\ UNCHANGED <<client, harness, solo, output_dir, par>>

NextPar ==
  \/ \E k \in Invocations : ParOpen(k)
  \/ \E k \in Invocations : ParScanPage(k)
  \/ \E k \in Invocations : ParBeginEmit(k)
  \/ \E k \in Invocations : ParEmitGroup(k)
  \/ \E k \in Invocations : ParReturn(k)
  \/ ParTick

SpecPar == InitPar /\ [][NextPar]_vars

(***************************************************************************)
(* The REST wrapper: ShiprocketAPI (shiprocket_api.py). Time is counted in *)
(* hours. A call runs step by step: _get_headers (the check, authenticate  *)
(* when it asks for it, the headers), then the request and its response.   *)
(***************************************************************************)
\* timedelta(days=9), in hours
TokenLifetime == 216

\* timedelta(hours=1)
ExpiryBuffer == 1

\* The longest bulk_ship_orders argument.
MaxIds == 2

\* The number of calls made on one object.
MaxCalls == 2

\* The number of times the clock is advanced.
MaxTicks == 2

ShipmentIds == {101, 102}

IdLists == SeqsUpTo(ShipmentIds, MaxIds)

\* The values "token" of a login response takes.
Tokens == {"tokA", "tokB"}

\* The waits between two steps: an hour, and the longest wait after which a
\* token obtained just before is still fresh.
Waits == {1, TokenLifetime - ExpiryBuffer - 1}

\* The methods that send one authenticated request and return its JSON.
SingleRequests == {"get_orders", "assign_awb", "get_wallet_balance"}

\* the bug of leaving the one-hour buffer out
is_token_expired_no_buffer(expiry, at) ==
  IF expiry = <<>> THEN TRUE ELSE at >= expiry[1]

\* _is_token_expired, with the value of self.token_expiry and of datetime.now()
is_token_expired(expiry, at) ==
  IF expiry = <<>> THEN TRUE ELSE at >= expiry[1] - ExpiryBuffer

\* the condition of _get_headers: not self.token or self._is_token_expired()
needs_authentication(tok, expiry, at) ==
  tok = <<>> \/ is_token_expired(expiry, at)

\* bulk_ship_orders: the response of assign_awb with shipment_id and success set
success_result(shipment_id, status) ==
  [shipment_id |-> shipment_id, success |-> (status = <<1>>),
   awb_assign_status |-> status, error |-> <<>>]

\* bulk_ship_orders: the entry of the except branch
failure_result(shipment_id) ==
  [shipment_id |-> shipment_id, success |-> FALSE,
   awb_assign_status |-> <<>>, error |-> <<"RequestException">>]

\* the bug of giving up at the first failure (a break in the except branch)
abort_after_failure(ids) == <<>>

\* The ids the for loop of bulk_ship_orders goes on with after the except
\* branch has run: all that are left.
after_failure(ids) == ids

\* quick_ship_new_orders: the counts it reports for the results of bulk_ship_orders
quick_ship_report(res) ==
  [shipped |-> Cardinality({k \in DOMAIN res : res[k].success}),
   failed |-> Cardinality({k \in DOMAIN res : ~res[k].success}),
   results |-> res]

Ready == api_pc \in {"idle", "returned", "raised"}

InitApi ==
  /\ HarnessIdle
  /\ clock = 1
  /\ PipelineIdle
  /\ ClientNew
  /\ ParIdle

\* The locals of a bulk_ship_orders that has returned are gone.
NoBulk ==
  /\ shipment_ids' = <<>>
  /\ rest' = <<>>
  /\ ship_results' = <<>>
  /\ attempted' = <<>>

\* The caller calls a method that sends one authenticated request.
CallRequest ==
  /\ Ready
  /\ calls < MaxCalls
  /\ \E m \in SingleRequests : op' = m
  /\ api_pc' = "headers"
  /\ headers' = <<>>
  /\ calls' = calls + 1
  /\ NoBulk
  /\ UNCHANGED <<par, harness, clock, pipeline, token, token_expiry, now, ticks>>

\* The caller calls authenticate() itself.
CallAuthenticate ==
  /\ Ready
  /\ calls < MaxCalls
  /\ op' = "authenticate"
  /\ api_pc' = "auth"
  /\ headers' = <<>>
  /\ calls' = calls + 1
  /\ NoBulk
  /\ UNCHANGED <<par, harness, clock, pipeline, token, token_expiry, now, ticks>>

\* The caller calls bulk_ship_orders(shipment_ids): results = []
CallBulk ==
  /\ Ready
  /\ calls < MaxCalls
  /\ \E ids \in IdLists :
       /\ shipment_ids' = ids
       /\ rest' = ids
  /\ op' = "bulk_ship_orders"
  /\ ship_results' = <<>>
  /\ attempted' = <<>>
  /\ api_pc' = "loop"
  /\ headers' = <<>>
  /\ calls' = calls + 1
  /\ UNCHANGED <<par, harness, clock, pipeline, token, token_expiry, now, ticks>>

\* One turn of "for shipment_id in shipment_ids" begins: assign_awb(shipment_id)
BulkNext ==
  /\ api_pc = "loop"
  /\ rest # <<>>
  /\ attempted' = Append(attempted, Head(rest))
  /\ api_pc' = "headers"
  /\ headers' = <<>>
  /\ UNCHANGED <<par, harness, clock, pipeline, token, token_expiry, now, op, shipment_ids,
                 rest, ship_results, calls, ticks>>

\* return results
BulkReturn ==
  /\ api_pc = "loop"
  /\ rest = <<>>
  /\ api_pc' = "returned"
  /\ UNCHANGED <<par, harness, clock, pipeline, token, token_expiry, now, op, shipment_ids,
                 rest, ship_results, attempted, headers, calls, ticks>>

\* _get_headers, its if statement.
CheckToken ==
  /\ api_pc = "headers"
  /\ api_pc' = IF needs_authentication(token, token_expiry, now) THEN "auth" ELSE "build"
  /\ UNCHANGED <<par, harness, clock, pipeline, token, token_expiry, now, op, shipment_ids,
                 rest, ship_results, attempted, headers, calls, ticks>>

\* A RequestException leaves the request of the running method: the except
\* branch of bulk_ship_orders takes it, any other method lets it go to the caller.
RequestRaises ==
  IF op = "bulk_ship_orders"
  THEN /\ ship_results' = Append(ship_results, failure_result(Head(rest)))
       /\ rest' = after_failure(Tail(rest))
       /\ api_pc' = "loop"
  ELSE /\ api_pc' = "raised"
       /\ UNCHANGED <<ship_results, rest>>

\* authenticate(): the login request fails (requests.post or raise_for_status
\* raises) and nothing is assigned, or it answers, with a token or without,
\* and self.token and self.token_expiry are set.
Authenticate ==
  /\ api_pc = "auth"
  /\ \/ /\ RequestRaises
        /\ UNCHANGED <<token, token_expiry>>
     \/ /\ \E t \in {<<>>} \cup {<<x>> : x \in Tokens} : token' = t
        /\ token_expiry' = <<now + TokenLifetime>>
        /\ api_pc' = IF op = "authenticate" THEN "returned" ELSE "build"
        /\ UNCHANGED <<ship_results, rest>>
  /\ UNCHANGED <<par, harness, clock, pipeline, now, op, shipment_ids, attempted, headers,
                 calls, ticks>>

\* _get_headers, its return: the headers carry self.token.
BuildHeaders ==
  /\ api_pc = "build"
  /\ headers' = <<[token |-> token, expiry |-> token_expiry, built |-> now]>>
  /\ api_pc' = "send"
  /\ UNCHANGED <<par, harness, clock, pipeline, token, token_expiry, now, op, shipment_ids,
                 rest, ship_results, attempted, calls, ticks>>

\* The request is sent with the headers and fails (no connection, a timeout,
\* an HTTP error status), or it is answered; the answer to assign_awb says
\* awb_assign_status 1, another value, or nothing.
SendRequest ==
  /\ api_pc = "send"
  /\ \/ RequestRaises
     \/ /\ op = "bulk_ship_orders"
        /\ \E status \in {<<1>>, <<0>>, <<>>} :
             ship_results' = Append(ship_results, success_result(Head(rest), status))
        /\ rest' = Tail(rest)
        /\ api_pc' = "loop"
     \/ /\ op # "bulk_ship_orders"
        /\ api_pc' = "returned"
        /\ UNCHANGED <<ship_results, rest>>
  /\ UNCHANGED <<par, harness, clock, pipeline, token, token_expiry, now, op, shipment_ids,
                 attempted, headers, calls, ticks>>

\* Time passes: between two calls, between two turns of the loop of
\* bulk_ship_orders (time.sleep), and while a request is under way.
Advance ==
  /\ api_pc \in {"idle", "returned", "raised", "loop", "auth", "send"}
  /\ ticks < MaxTicks
  /\ \E w \in Waits : now' = now + w
  /\ ticks' = ticks + 1
  /\ UNCHANGED <<par, harness, clock, pipeline, token, token_expiry, api_pc, op,
                 shipment_ids, rest, ship_results, attempted, headers, calls>>

NextApi ==
  \/ CallRequest
  \/ CallAuthenticate
  \/ CallBulk
  \/ BulkNext
  \/ BulkReturn
  \/ CheckToken
  \/ Authenticate
  \/ BuildHeaders
  \/ SendRequest
  \/ Advance

SpecApi == InitApi /\ [][NextApi]_vars

(***************************************************************************)
(* The two entry points side by side: the batch form runs on the variables *)
(* of the pipeline, the interactive form (app.py) keeps its locals in inv  *)
(* and its defaultdict in heap, and runs the copies of the helper          *)
(* functions that app.py defines for itself. Both are given the same       *)
(* document and read the same clock.                                       *)
(***************************************************************************)
\* [:30] of app.py's normalize_courier
AppMaxCourierLen == 30

\* [:50] of app.py's normalize_sku
AppMaxSkuLen == 50

\* the copy that has drifted: spaces are dropped, not turned into hyphens
app_normalize_sku_drops_spaces(sku_raw) == Take(StripUnsafe(sku_raw), AppMaxSkuLen)

\* app.py's normalize_sku: re.sub(r'[^\w\-]', '', sku_raw.replace(' ', '-'))[:50]
app_normalize_sku(sku_raw) == Take(StripUnsafe(ReplaceSpaces(sku_raw)), AppMaxSkuLen)

\* app.py's normalize_courier
app_normalize_courier(courier_raw) ==
  LET courier_lower == Lower(courier_raw)
  IN IF Contains(courier_lower, <<"e","k","a","r","t">>) THEN <<"E","k","a","r","t">>
     ELSE IF Contains(courier_lower, <<"d","e","l","h","i","v","e","r","y">>)
       THEN <<"D","e","l","h","i","v","e","r","y">>
     ELSE IF Contains(courier_lower, <<"x","p","r","e","s","s","b","e","e","s">>)
       THEN <<"X","p","r","e","s","s","b","e","e","s">>
     ELSE IF Contains(courier_lower, <<"b","l","u","e","d","a","r","t">>)
       THEN <<"B","l","u","e","D","a","r","t">>
     ELSE IF Contains(courier_lower, <<"d","t","d","c">>) THEN <<"D","T","D","C">>
     ELSE IF Contains(courier_lower, <<"s","h","a","d","o","w","f","a","x">>)
       THEN <<"S","h","a","d","o","w","f","a","x">>
     ELSE IF Contains(courier_lower, <<"e","c","o","m">>)
       THEN <<"E","c","o","m","E","x","p","r","e","s","s">>
     ELSE Take(StripUnsafe(ReplaceSpaces(courier_raw)), AppMaxCourierLen)

\* app.py's courier_patterns, written as the list of label_sorter.py is: head,
\* \s* and tail where the pattern has them, and the name.
app_courier_patterns == <<
  [head |-> <<"E","k","a","r","t">>, tail |-> <<>>, name |-> <<"E","k","a","r","t">>],
  [head |-> <<"D","e","l","h","i","v","e","r","y">>, tail |-> <<>>,
   name |-> <<"D","e","l","h","i","v","e","r","y">>],
  [head |-> <<"X","p","r","e","s","s","b","e","e","s">>, tail |-> <<>>,
   name |-> <<"X","p","r","e","s","s","b","e","e","s">>],
  [head |-> <<"B","l","u","e","D","a","r","t">>, tail |-> <<>>,
   name |-> <<"B","l","u","e","D","a","r","t">>],
  [head |-> <<"D","T","D","C">>, tail |-> <<>>, name |-> <<"D","T","D","C">>],
  [head |-> <<"S","h","a","d","o","w","f","a","x">>, tail |-> <<>>,
   name |-> <<"S","h","a","d","o","w","f","a","x">>],
  [head |-> <<"E","c","o","m">>, tail |-> <<"E","x","p","r","e","s","s">>,
   name |-> <<"E","c","o","m","E","x","p","r","e","s","s">>] >>

\* app.py's extract_label_info(page_text), with the day datetime.now() shows:
\* the loop over app.py's courier_patterns with its break, the SKU pattern
\* with app.py's normalize_sku, the two date patterns.
app_extract_label_info(page_text, today) ==
  LET hits == {k \in DOMAIN app_courier_patterns :
                 CourierPatternFound(app_courier_patterns[k], page_text)}
      sku_match == SkuSearch(page_text)
      date_match == InvoiceDateSearch(page_text)
      date_match2 == BareDateSearch(page_text)
  IN [courier |-> IF hits = {} THEN <<"U","n","k","n","o","w","n">>
                  ELSE app_courier_patterns[Min(hits)].name,
      sku |-> IF sku_match # None THEN app_normalize_sku(Strip(sku_match))
              ELSE <<"U","n","k","n","o","w","n">>,
      date |-> IF date_match # None THEN date_match
               ELSE IF date_match2 # None THEN date_match2
               ELSE strftime(today)]

\* app.py's extract_label_info is pure as well: its value on every page text
\* of the documents and every day of the calendar, worked out once.
app_label_table ==
  {<<t, d, app_extract_label_info(t, Calendar[d])>> :
     t \in {text_or_empty(x) : x \in PageTexts}, d \in DOMAIN Calendar}

app_label_info(t, d) == (CHOOSE r \in app_label_table : r[1] = t /\ r[2] = d)[3]

\* Either a helper function of one of the files is called on its own and no
\* sort_labels runs, or both forms of sort_labels are called with the same
\* document (for the interactive form an upload, so the file is there).
InitEntry ==
  /\ ret = <<>>
  /\ mode = "batch"
  /\ clock \in DOMAIN Calendar
  /\ reader = <<>>
  /\ total_pages = 0
  /\ groups = <<>>
  /\ i = 0
  /\ dates_read = {}
  /\ todo = <<>>
  /\ results = <<>>
  /\ zf = <<>>
  /\ written = <<>>
  /\ returned = <<>>
  /\ output_dir = NoDirectory
  /\ previous = <<>>
  /\ ClientNew
  /\ heap = <<>>
  /\ \/ /\ fn = "none"
        /\ arg \in RawStrings \cup ExtractTexts
        /\ input_pdf = Missing
        /\ pc = "idle"
        /\ inv = [NewCall(input_pdf) EXCEPT !.pc = "idle"]
     \/ /\ fn = "sort_labels"
        /\ arg = <<>>
        /\ input_pdf \in
             {Corrupt} \cup
               {[exists |-> TRUE, parses |-> TRUE, texts |-> t] :
                  t \in SeqsUpTo({LabelEkart, LabelSkuOnly, LabelNoFields, None}, MaxParPages)}
        /\ pc = "start"
        /\ inv = NewCall(input_pdf)

CallAppNormalizeSku ==
  /\ fn = "none"
  /\ fn' = "app.normalize_sku"
  /\ ret' = <<app_normalize_sku(arg)>>
  /\ UNCHANGED <<arg, clock, pipeline, client, par>>

CallAppNormalizeCourier ==
  /\ fn = "none"
  /\ fn' = "app.normalize_courier"
  /\ ret' = <<app_normalize_courier(arg)>>
  /\ UNCHANGED <<arg, clock, pipeline, client, par>>

CallAppExtract ==
  /\ fn = "none"
  /\ fn' = "app.extract_label_info"
  /\ ret' = <<app_extract_label_info(arg, Calendar[clock])>>
  /\ UNCHANGED <<arg, clock, pipeline, client, par>>

\* PdfReader(pdf_file) raises: the upload is no PDF.
AppOpenFails ==
  /\ inv.pc = "start"
  /\ inv.doc.exists
  /\ ~inv.doc.parses
  /\ inv' = [inv EXCEPT !.pc = "error"]
  /\ UNCHANGED <<client, harness, clock, solo, output_dir, heap>>

\* PdfReader, total_pages = len(reader.pages), groups = defaultdict(list)
AppOpen ==
  /\ inv.pc = "start"
  /\ inv.doc.parses
  /\ inv' = [inv EXCEPT !.reader = ReaderPages(inv.doc),
                        !.total_pages = Len(inv.doc.texts),
                        !.groups = Len(heap) + 1,
                        !.pc = "scan"]
  /\ heap' = Append(heap, <<>>)
  /\ UNCHANGED <<client, harness, clock, solo, output_dir>>

\* One turn of app.py's "for i, page in enumerate(reader.pages)".
AppScanPage ==
  /\ inv.pc = "scan"
  /\ inv.i < Len(inv.reader)
  /\ LET page == inv.reader[inv.i + 1]
         text == text_or_empty(extract_text(inv.doc, page))
         info == app_label_info(text, clock)
         key == <<info.date, info.courier, info.sku>>
     IN heap' = [heap EXCEPT ![inv.groups] = append_to_group(@, key, inv.i)]
  /\ inv' = [inv EXCEPT !.i = @ + 1, !.days = Append(@, clock)]
  /\ UNCHANGED <<client, harness, clock, solo, output_dir>>

\* zip_buffer = io.BytesIO(), results = [], the ZipFile is opened, and the
\* for statement evaluates sorted(groups.items()) once.
AppBeginEmit ==
  /\ inv.pc = "scan"
  /\ inv.i = Len(inv.reader)
  /\ inv' = [inv EXCEPT !.todo = sorted_groups(heap[inv.groups]),
                        !.results = <<>>,
                        !.zf = <<>>,
                        !.pc = "emit"]
  /\ UNCHANGED <<client, harness, clock, solo, output_dir, heap>>

\* One turn of app.py's "for (date, courier, sku), page_indices in sorted(...)".
AppEmitGroup ==
  /\ inv.pc = "emit"
  /\ inv.todo # <<>>
  /\ LET key == Head(inv.todo).key
         page_indices == Head(inv.todo).pages
         filename == Filename(key[1], key[2], key[3])
         writer == [n \in DOMAIN page_indices |-> inv.reader[page_indices[n] + 1]]
     IN inv' = [inv EXCEPT !.zf = Append(@, WholeFile(filename, writer)),
                           !.results = Append(@, result_entry(filename, key, page_indices)),
                           !.todo = Tail(@)]
  /\ UNCHANGED <<client, harness, clock, solo, output_dir, heap>>

\* writer.write() or zf.writestr() raises: the exception leaves sort_labels,
\* and the buffer, a local, is gone with it.
AppEmitFails ==
  /\ inv.pc = "emit"
  /\ inv.todo # <<>>
  /\ inv' = [inv EXCEPT !.pc = "error"]
  /\ UNCHANGED <<client, harness, clock, solo, output_dir, heap>>

\* return zip_buffer, results, total_pages
AppReturn ==
  /\ inv.pc = "emit"
  /\ inv.todo = <<>>
  /\ inv' = [inv EXCEPT !.returned = <<[zip_buffer |-> inv.zf,
                                        results |-> inv.results,
                                        total_pages |-> inv.total_pages]>>,
                        !.pc = "done"]
  /\ UNCHANGED <<client, harness, clock, solo, output_dir, heap>>

NextEntry ==
  \/ CallNormalizeSku
  \/ CallNormalizeCourier
  \/ CallExtract
  \/ CallAppNormalizeSku
  \/ CallAppNormalizeCourier
  \/ CallAppExtract
  \/ OpenFails
  \/ Open
  \/ ScanPage
  \/ BeginEmit
  \/ EmitGroup
  \/ EmitFails
  \/ Return
  \/ Tick
  \/ AppOpenFails
  \/ AppOpen
  \/ AppScanPage
  \/ AppBeginEmit
  \/ AppEmitGroup
  \/ AppEmitFails
  \/ AppReturn

SpecEntry == InitEntry /\ [][NextEntry]_vars

(***************************************************************************)
(* Properties of sort_labels (Spec).                                       *)
(***************************************************************************)
RECURSIVE SumLabels(_)
SumLabels(entries) ==
  IF entries = <<>> THEN 0 ELSE Head(entries).labels + SumLabels(Tail(entries))

\* How often page index n stands in the index lists of the groups.
Occurrences(g, n) ==
  Cardinality({jk \in UNION {{j} \X DOMAIN g[j].pages : j \in DOMAIN g} :
                 g[jk[1]].pages[jk[2]] = n})

StrictlyAscending(q) == \A a, b \in DOMAIN q : a < b => q[a] < q[b]

\* The files the running call has delivered so far, by name and content.
Delivered == IF mode = "batch" THEN output_dir.files ELSE Range(zf)

\* C1. Page conservation: when sort_labels has returned, the label counts of
\* the summary entries add up to the returned total, which is the number of
\* pages of the document; a document of zero pages gives no group, no entry
\* and no file. Both forms of sort_labels.
PageConservation ==
  pc = "done" =>
    /\ SumLabels(returned[1].files) = returned[1].total_labels
    /\ returned[1].total_labels = Len(input_pdf.texts)
    /\ Len(input_pdf.texts) = 0 =>
         groups = <<>> /\ returned[1].files = <<>> /\ returned[1].package = {}

PageConservationWitness ==
  /\ pc = "done"
  /\ mode = "batch"
  /\ returned[1].total_labels = 3
  /\ Len(returned[1].files) = 2

\* C2. Partition: during the scan every page index scanned so far stands in
\* the index list of exactly one group, once, no other index stands in any
\* list and no two groups have the same key; so once all pages are scanned
\* every index 0..N-1 is in exactly one group, pages without text included.
Partition ==
  pc \in {"scan", "emit", "done"} =>
    /\ \A n \in 0..(total_pages - 1) : Occurrences(groups, n) = IF n < i THEN 1 ELSE 0
    /\ \A j, k \in DOMAIN groups : groups[j].key = groups[k].key => j = k
    /\ \A j \in DOMAIN groups : \A k \in DOMAIN groups[j].pages :
         groups[j].pages[k] \in 0..(total_pages - 1)
    /\ pc \in {"emit", "done"} => i = total_pages

PartitionWitness ==
  /\ pc = "emit"
  /\ total_pages = 3
  /\ input_pdf.texts[2] = None
  /\ input_pdf.texts[3] = LabelBlank
  /\ \E j \in DOMAIN groups :
       groups[j].key[2] = Unknown /\ groups[j].key[3] = Unknown /\ groups[j].pages = <<1, 2>>

EntryKey(entry) == <<entry.date, entry.courier, entry.sku>>

\* C3. Emission order: the summary entries stand in strictly ascending order
\* of (date, courier, sku), the files were written in the order of the
\* entries (in the zip form this is the order of the archive), and the
\* groups still to be written come after those written, whatever the order
\* in which the keys were first seen.
EmissionOrder ==
  pc \in {"emit", "done"} =>
    /\ \A a, b \in DOMAIN results : a < b => KeyLess(EntryKey(results[a]), EntryKey(results[b]))
    /\ written = [k \in DOMAIN results |-> results[k].file]
    /\ mode = "zip" => [k \in DOMAIN zf |-> zf[k].name] = written
    /\ \A a \in DOMAIN results : \A b \in DOMAIN todo :
         KeyLess(EntryKey(results[a]), todo[b].key)

\* The second key seen is written first.
EmissionOrderWitness ==
  /\ pc = "done"
  /\ Len(groups) = 3
  /\ EntryKey(results[1]) = groups[2].key
  /\ EntryKey(results[2]) = groups[3].key
  /\ EntryKey(results[3]) = groups[1].key

\* C4. Within-group page order: at every point of the scan and of the
\* emission the index list of every group is strictly ascending, and so are
\* the source positions of the pages of every sub-document written.
WithinGroupOrder ==
  /\ \A j \in DOMAIN groups : StrictlyAscending(groups[j].pages)
  /\ \A j \in DOMAIN todo : StrictlyAscending(todo[j].pages)
  /\ \A f \in Range(zf) \cup output_dir.files : StrictlyAscending(f.data)

WithinGroupOrderWitness ==
  /\ pc = "done"
  /\ \E f \in Delivered : f.data = <<0, 2>>
  /\ \E f \in Delivered : f.data = <<1>>

ExampleDocument == <<LabelEkart, LabelEkart, LabelDelhivery>>

ExampleFileEkart == <<"2","0","2","4","-","0","1","-","1","5","_","E","k","a","r","t","_","A","B","C","-","1","2","3",".","p","d","f">>

ExampleFileDelhivery == <<"2","0","2","4","-","0","1","-","1","6","_","D","e","l","h","i","v","e","r","y","_","X","Y","Z","_","9","9",".","p","d","f">>

\* C5. One output per group: when sort_labels has returned there is one
\* summary entry and one written file per group; the entry of a group is
\* named date_courier_sku.pdf, carries the components of the key and the
\* number of the group's indices, and the file of that name holds the source
\* pages at those indices, in that order. The three-page example gives
\* 2024-01-15_Ekart_ABC-123.pdf with pages 1-2 and
\* 2024-01-16_Delhivery_XYZ_99.pdf with page 3, and nothing else.
OneOutputPerGroup ==
  pc = "done" =>
    /\ Len(results) = Len(groups)
    /\ Len(written) = Len(groups)
    /\ \A j \in DOMAIN groups :
         LET key == groups[j].key
             name == key[1] \o <<"_">> \o key[2] \o <<"_">> \o key[3] \o <<".", "p", "d", "f">>
             mine == {k \in DOMAIN results : EntryKey(results[k]) = key}
         IN /\ Cardinality(mine) = 1
            /\ \A k \in mine :
                 /\ results[k].file = name
                 /\ results[k].labels = Len(groups[j].pages)
                 /\ written[k] = name
            /\ Cardinality({f \in Delivered : f.name = name}) = 1
            /\ \A f \in Delivered :
                 f.name = name =>
                   f.whole /\ f.data = [n \in DOMAIN groups[j].pages |-> reader[groups[j].pages[n] + 1]]
    /\ input_pdf.texts = ExampleDocument =>
         /\ [k \in DOMAIN results |-> <<results[k].file, results[k].labels>>]
              = <<<<ExampleFileEkart, 2>>, <<ExampleFileDelhivery, 1>>>>
         /\ Delivered = {WholeFile(ExampleFileEkart, <<0, 1>>),
                         WholeFile(ExampleFileDelhivery, <<2>>)}

OneOutputPerGroupWitness ==
  /\ pc = "done"
  /\ input_pdf.texts = ExampleDocument
  /\ Len(results) = 2

\* C10. Determinism: when sort_labels has run twice on the same document and
\* every reading of the clock in both runs showed the same day, the second
\* run returns the summary entries, the total and the files of the first,
\* and groups the pages as the first did.
Determinism ==
  (pc = "done" /\ previous # <<>> /\ Cardinality(previous[1].dates \cup dates_read) <= 1) =>
    /\ returned[1].files = previous[1].returned.files
    /\ returned[1].total_labels = previous[1].returned.total_labels
    /\ returned[1].package = previous[1].returned.package
    /\ groups = previous[1].groups

DeterminismWitness ==
  /\ pc = "done"
  /\ previous # <<>>
  /\ previous[1].dates = dates_read
  /\ Cardinality(dates_read) = 1
  /\ Len(groups) = 3
  /\ \E j \in DOMAIN groups : groups[j].key[1] = strftime(Calendar[clock])

\* C14. Fail-fast on unreadable input: when the source document is missing
\* or cannot be parsed, sort_labels ends with an error before any page is
\* scanned and leaves nothing behind: no group, no summary, no return value,
\* no file, no archive entry and no output directory that was not there.
FailFast ==
  (pc = "error" /\ ~input_pdf.parses) =>
    /\ i = 0
    /\ groups = <<>>
    /\ results = <<>>
    /\ returned = <<>>
    /\ zf = <<>>
    /\ output_dir = NoDirectory

\* C15. All-or-nothing output: when writing the sub-document of a group
\* fails after k groups were written, sort_labels ends with an error, returns
\* nothing, and none of the k files written by the call is left in the output
\* directory; the archive of the interactive form is never handed over.
AllOrNothing ==
  pc = "error" =>
    /\ returned = <<>>
    /\ \A k \in DOMAIN written : \A f \in output_dir.files : f.name # written[k]

\* The pages of the group of the given key.
PagesOf(key) == groups[CHOOSE j \in DOMAIN groups : groups[j].key = key].pages

\* C20. No filename collision: in one run no two groups get the same file
\* name, so the names written are pairwise different, no entry of the
\* archive has the name of another, no file of the batch form is replaced by
\* the file of another group, and when the run has returned there are as many
\* files of this run as there are groups.
NoFilenameCollision ==
  pc \in {"emit", "done"} =>
    /\ \A a, b \in DOMAIN written : a # b => written[a] # written[b]
    /\ \A a, b \in DOMAIN zf : a # b => zf[a].name # zf[b].name
    /\ mode = "batch" =>
         \A k \in DOMAIN results :
           \E f \in output_dir.files :
             /\ f.name = results[k].file
             /\ f.whole
             /\ f.data = PagesOf(EntryKey(results[k]))
    /\ pc = "done" =>
         /\ Cardinality(Range(written)) = Len(groups)
         /\ mode = "zip" => Cardinality({f.name : f \in Range(zf)}) = Len(groups)
         /\ mode = "batch" =>
              Cardinality({f \in output_dir.files : f.name \in Range(written)}) = Len(groups)

\* Three groups, two of which differ in the sku only.
NoFilenameCollisionWitness ==
  /\ pc = "done"
  /\ Len(groups) = 3
  /\ \E j, k \in DOMAIN groups :
       /\ groups[j].key[1] = groups[k].key[1]
       /\ groups[j].key[2] = groups[k].key[2]
       /\ groups[j].key[3] # groups[k].key[3]

(***************************************************************************)
(* Properties of the Field Normalizer (SpecNorm).                          *)
(***************************************************************************)
\* C6. Normalization character safety: whatever the raw string, the result
\* of normalize_sku and of normalize_courier holds no character outside
\* [A-Za-z0-9_-].
NormalizationSafety ==
  fn \in {"normalize_sku", "normalize_courier"} =>
    \A k \in DOMAIN ret[1] : IsSafeAscii(ret[1][k])

\* The positions of raw whose characters the fallback transform keeps: the
\* spaces (which become hyphens), the hyphens and the word characters.
KeptPositions(raw) ==
  {k \in DOMAIN raw : raw[k] = " " \/ raw[k] = "-" \/ IsWord(raw[k])}

\* The first n kept characters of raw, spaces turned into hyphens.
FirstKept(raw, n) ==
  LET kept == KeptPositions(raw)
      len == IF Cardinality(kept) < n THEN Cardinality(kept) ELSE n
      nth(m) == CHOOSE k \in kept : Cardinality({x \in kept : x <= k}) = m
  IN [m \in 1..len |-> IF raw[nth(m)] = " " THEN "-" ELSE raw[nth(m)]]

NamesNoCarrier(raw) ==
  \A sub \in {SubEkart, SubDelhivery, SubXpressbees, SubBlueDart, SubDTDC,
              SubShadowfax, SubEcomExpress} : ~Contains(Lower(raw), sub)

\* C7. Normalization length bound: normalize_sku returns at most 50
\* characters and normalize_courier at most 30; the string is cut after the
\* spaces are replaced and the unsafe characters are dropped, so the result
\* of normalize_sku (of normalize_courier, when the raw string names no
\* known carrier) is the first 50 (30) characters that are kept; the empty
\* string gives the empty string.
NormalizationLength ==
  /\ fn = "normalize_sku" =>
       /\ Len(ret[1]) <= 50
       /\ ret[1] = FirstKept(arg, 50)
  /\ fn = "normalize_courier" =>
       /\ Len(ret[1]) <= 30
       /\ NamesNoCarrier(arg) => ret[1] = FirstKept(arg, 30)
  /\ (fn # "none" /\ arg = <<>>) => ret[1] = <<>>

\* More than 50 characters are kept, and one before the 50th is dropped.
NormalizationLengthWitness ==
  /\ fn = "normalize_sku"
  /\ Cardinality(KeptPositions(arg)) > 50
  /\ \E k \in 1..50 : k \notin KeptPositions(arg)
  /\ Len(ret[1]) = 50

\* The canonical carrier table of the specification, in its order.
CarrierTable == <<
  <<SubEkart, NameEkart>>,
  <<SubDelhivery, NameDelhivery>>,
  <<SubXpressbees, NameXpressbees>>,
  <<SubBlueDart, NameBlueDart>>,
  <<SubDTDC, NameDTDC>>,
  <<SubShadowfax, NameShadowfax>>,
  <<SubEcomExpress, NameEcomExpress>> >>

\* The rows of the table whose substring the lower-cased text contains.
TableHits(text) ==
  {k \in DOMAIN CarrierTable : Contains(Lower(text), CarrierTable[k][1])}

\* C13. Canonical table of normalize_courier: when the lower-cased raw string
\* contains one or more of ekart, delhivery, xpressbees, bluedart, dtdc,
\* shadowfax, ecom, the result is the canonical name of the first of them in
\* that order, wherever they stand in the string; the fallback transform is
\* applied only when it contains none of the seven.
CanonicalTable ==
  fn = "normalize_courier" =>
    IF TableHits(arg) # {}
    THEN ret[1] = CarrierTable[Min(TableHits(arg))][2]
    ELSE ret[1] = FirstKept(arg, 30)

\* Two carriers are named, and the one that stands later in the string but
\* earlier in the table is returned.
CanonicalTableWitness ==
  /\ fn = "normalize_courier"
  /\ \E p, q \in DOMAIN arg :
       /\ p < q
       /\ LitAt(arg, p, SubEcomExpress)
       /\ LitAt(arg, q, SubDelhivery)
  /\ TableHits(arg) = {2, 7}
  /\ ret[1] = NameDelhivery

(***************************************************************************)
(* Properties of the Label Field Extractor (SpecExtract).                  *)
(***************************************************************************)
\* The k-th carrier of the priority list is named in the text, in any case.
Names(k, text) ==
  IF courier_patterns[k].tail = <<>>
  THEN Contains(Lower(text), Lower(courier_patterns[k].head))
  ELSE CourierPatternFound(courier_patterns[k], text)

\* C8. First-match priority: when the page text names one or more of the
\* known carriers, in any case, the courier is the one that comes first in
\* the priority list, wherever the names stand in the text.
FirstMatchPriority ==
  fn = "extract_label_info" =>
    \A k \in DOMAIN courier_patterns :
      (Names(k, arg) /\ \A m \in 1..(k - 1) : ~Names(m, arg)) =>
        ret[1].courier = courier_patterns[k].name

\* DELHIVERY comes first in the text and in the alphabet, Ekart in the list.
FirstMatchPriorityWitness ==
  /\ fn = "extract_label_info"
  /\ \E p \in DOMAIN arg :
       /\ LitAt(arg, p, <<"D","E","L","H","I","V","E","R","Y">>)
       /\ \E q \in DOMAIN arg : q > p /\ LitAt(arg, q, NameEkart)
  /\ ret[1].courier = NameEkart

\* C9. Default fallback: each field falls back on its own. Without a courier
\* pattern the courier is "Unknown", without the label "SKU:" the sku is
\* "Unknown", without a YYYY-MM-DD token the date is the day the clock
\* shows; a text that is empty or only whitespace gets all three.
DefaultFallback ==
  fn = "extract_label_info" =>
    /\ (\A k \in DOMAIN courier_patterns : ~Names(k, arg)) => ret[1].courier = Unknown
    /\ ~Contains(arg, LitSku) => ret[1].sku = Unknown
    /\ (\A p \in DOMAIN arg : ~DateAt(arg, p)) =>
         ret[1].date = strftime(Calendar[clock])
    /\ (\A p \in DOMAIN arg : IsSpace(arg[p])) =>
         /\ ret[1].courier = Unknown
         /\ ret[1].sku = Unknown
         /\ ret[1].date = strftime(Calendar[clock])

DefaultFallbackWitness ==
  /\ fn = "extract_label_info"
  /\ arg = <<" ", LF, LF>>
  /\ clock = 2
  /\ ret[1] = [courier |-> Unknown, sku |-> Unknown,
               date |-> <<"2","0","2","4","-","1","2","-","3","1">>]

\* What stands after the first "SKU:" of the text on the same line: from the
\* character after the colon up to the next newline, or to the end.
SameLineRemainder(text) ==
  LET p == Min({q \in DOMAIN text : LitAt(text, q, LitSku)})
      a == p + Len(LitSku)
      stops == {q \in a..Len(text) : text[q] = LF}
      e == IF stops = {} THEN Len(text) ELSE Min(stops) - 1
  IN SubSeq(text, a, e)

\* C11. SKU detection: when the page text holds the label "SKU:", the sku is
\* normalize_sku of the trimmed remainder of the line on which the first
\* "SKU:" stands, so nothing of a following line and nothing after a later
\* "SKU:" is taken; without the label the sku stays "Unknown".
SkuDetection ==
  fn = "extract_label_info" =>
    IF Contains(arg, LitSku)
    THEN ret[1].sku = normalize_sku(Strip(SameLineRemainder(arg)))
    ELSE ret[1].sku = Unknown

\* The positions where a date follows the label "Invoice Date:": the date
\* starts there, and between the colon of a label and the date stands
\* nothing but whitespace.
InvoiceDates(text) ==
  {q \in DOMAIN text :
     /\ DateAt(text, q)
     /\ \E p \in DOMAIN text :
          /\ LitAt(text, p, LitInvoiceDate)
          /\ p + Len(LitInvoiceDate) <= q
          /\ \A j \in (p + Len(LitInvoiceDate))..(q - 1) : IsSpace(text[j])}

BareDates(text) == {q \in DOMAIN text : DateAt(text, q)}

\* C12. Date detection precedence: when a YYYY-MM-DD date follows the label
\* "Invoice Date:" somewhere in the text, the date is the first such date,
\* also when a bare date stands earlier in the text; otherwise it is the
\* first bare date of the text; otherwise the day the clock shows.
DatePrecedence ==
  fn = "extract_label_info" =>
    IF InvoiceDates(arg) # {}
    THEN ret[1].date = SubSeq(arg, Min(InvoiceDates(arg)), Min(InvoiceDates(arg)) + 9)
    ELSE IF BareDates(arg) # {}
    THEN ret[1].date = SubSeq(arg, Min(BareDates(arg)), Min(BareDates(arg)) + 9)
    ELSE ret[1].date = strftime(Calendar[clock])

\* A bare date stands before the date of the label, and the label's date wins.
DatePrecedenceWitness ==
  /\ fn = "extract_label_info"
  /\ InvoiceDates(arg) # {}
  /\ Min(BareDates(arg)) < Min(InvoiceDates(arg))
  /\ ret[1].date = <<"2","0","2","4","-","0","1","-","1","5">>
  /\ SubSeq(arg, Min(BareDates(arg)), Min(BareDates(arg)) + 9)
       = <<"2","0","2","3","-","1","2","-","3","1">>

\* C18. The extractor agrees with the canonical carrier table: when the page
\* text contains, in any case, one or more of the seven substrings of the
\* table, the courier of extract_label_info is the canonical name of the
\* first of them in table order, which is normalize_courier of the text; a
\* text with "ecom" and none of the six others gets EcomExpress.
ExtractorAgreesWithTable ==
  (fn = "extract_label_info" /\ TableHits(arg) # {}) =>
    /\ ret[1].courier = CarrierTable[Min(TableHits(arg))][2]
    /\ ret[1].courier = normalize_courier(arg)

(***************************************************************************)
(* Properties of concurrent calls of sort_labels (SpecPar).                *)
(***************************************************************************)
\* The elements of a set of numbers, in ascending order.
Ascending(S) ==
  [r \in 1..Cardinality(S) |-> CHOOSE x \in S : Cardinality({y \in S : y <= x}) = r]

\* The key of page n (counted from 1) of the texts, read on the day days[n].
KeyAlone(texts, days, n) ==
  LET info == label_info(text_or_empty(texts[n]), days[n])
  IN <<info.date, info.courier, info.sku>>

\* What a call that runs alone makes of the texts: one group per key, in the
\* order in which the keys come up, with the indices of its pages ascending.
GroupsAlone(texts, days) ==
  LET firsts == {n \in DOMAIN texts :
                   \A m \in 1..(n - 1) : KeyAlone(texts, days, m) # KeyAlone(texts, days, n)}
      order == Ascending(firsts)
  IN [r \in DOMAIN order |->
        [key |-> KeyAlone(texts, days, order[r]),
         pages |-> Ascending({n - 1 : n \in {m \in DOMAIN texts :
                      KeyAlone(texts, days, m) = KeyAlone(texts, days, order[r])}})]]

\* The summary of a call that runs alone: an entry per group, in key order.
SummaryAlone(texts, days) ==
  LET alone == GroupsAlone(texts, days)
      below(r) == Cardinality({q \in DOMAIN alone : KeyLess(alone[q].key, alone[r].key)})
  IN [n \in DOMAIN alone |->
        LET g == alone[CHOOSE r \in DOMAIN alone : below(r) = n - 1]
        IN [file |-> g.key[1] \o <<"_">> \o g.key[2] \o <<"_">> \o g.key[3]
                       \o <<".", "p", "d", "f">>,
            date |-> g.key[1], courier |-> g.key[2], sku |-> g.key[3],
            labels |-> Len(g.pages)]]

\* C17. Invocation isolation: when two calls of sort_labels run at the same
\* time on two documents, their per-page steps interleaved in any order, each
\* has a grouping map of its own, and at every moment the map of a call is
\* what the call alone makes of the pages it has scanned; the summary and the
\* total a call returns are those of the call alone, and the sub-documents of
\* a call hold pages of its own document only.
InvocationIsolation ==
  \A k \in DOMAIN inv :
    LET c == inv[k]
    IN c.pc # "start" =>
         /\ \A j \in DOMAIN inv \ {k} : inv[j].pc # "start" => inv[j].groups # c.groups
         /\ heap[c.groups] = GroupsAlone(SubSeq(c.doc.texts, 1, c.i), c.days)
         /\ \A f \in Range(c.zf) : \A n \in DOMAIN f.data : f.data[n].document = k
         /\ c.pc = "done" =>
              /\ c.returned[1].files = SummaryAlone(c.doc.texts, c.days)
              /\ c.returned[1].total_labels = Len(c.doc.texts)

\* Both calls are in the middle of their scans, and each has met the key the
\* other has met.
InvocationIsolationWitness ==
  /\ inv # <<>>
  /\ \A k \in DOMAIN inv :
       /\ inv[k].pc = "scan"
       /\ inv[k].i = 1
       /\ Len(inv[k].doc.texts) = 2
       /\ heap[inv[k].groups] = <<[key |-> heap[inv[1].groups][1].key, pages |-> <<0>>]>>

(***************************************************************************)
(* Properties of the REST wrapper (SpecApi).                               *)
(***************************************************************************)
IsPrefix(a, b) == Len(a) <= Len(b) /\ \A k \in DOMAIN a : a[k] = b[k]

\* C16. Bulk-ship failure isolation: whatever the list of shipment ids and
\* whichever requests fail, bulk_ship_orders never lets the failure out: it
\* calls assign_awb for every id in the order of the list, and returns one
\* result per id in that order, with the id and a boolean success that is
\* true only when the answer said awb_assign_status 1; the counts
\* quick_ship_new_orders reports add up to the number of ids.
BulkIsolation ==
  op = "bulk_ship_orders" =>
    /\ api_pc # "raised"
    /\ IsPrefix(attempted, shipment_ids)
    /\ Len(ship_results) + Len(rest) = Len(shipment_ids)
    /\ \A k \in DOMAIN ship_results :
         /\ ship_results[k].shipment_id = shipment_ids[k]
         /\ ship_results[k].success \in BOOLEAN
         /\ ship_results[k].success <=> (ship_results[k].awb_assign_status = <<1>>)
    /\ api_pc = "returned" =>
         /\ attempted = shipment_ids
         /\ Len(ship_results) = Len(shipment_ids)
         /\ quick_ship_report(ship_results).shipped + quick_ship_report(ship_results).failed
              = Len(shipment_ids)

\* The first call fails and the second ships.
BulkIsolationWitness ==
  /\ op = "bulk_ship_orders"
  /\ api_pc = "returned"
  /\ Len(shipment_ids) = 2
  /\ ship_results[1].error # <<>>
  /\ ship_results[2].success
  /\ quick_ship_report(ship_results).shipped = 1
  /\ quick_ship_report(ship_results).failed = 1

\* The headers of the request that is about to be sent carry the token the
\* object holds, whose recorded expiry was more than an hour away when the
\* headers were built.
FreshWhenSent ==
  api_pc = "send" =>
    /\ headers # <<>>
    /\ headers[1].token = token
    /\ headers[1].expiry # <<>>
    /\ headers[1].expiry[1] - headers[1].built > 1

\* A request is sent only with headers just built, headers are built only
\* after the check of _get_headers; the check goes to authenticate() exactly
\* when no token is held or the recorded expiry is an hour away or less; and
\* authenticate(), when it succeeds, records the hour plus nine days.
CheckDecides ==
  /\ (api_pc # "send" /\ api_pc' = "send") => api_pc = "build"
  /\ (api_pc # "build" /\ api_pc' = "build") => api_pc \in {"headers", "auth"}
  /\ api_pc = "headers" =>
       LET stale == token = <<>> \/ token_expiry = <<>> \/ token_expiry[1] - now <= 1
       IN /\ api_pc' = "auth" => stale
          /\ api_pc' = "build" => ~stale
  /\ (api_pc = "auth" /\ api_pc' \in {"build", "returned"}) =>
       token_expiry' = <<now + 9 * 24>>

\* C19. Token freshness before use: whatever calls are made on a
\* ShiprocketAPI object and however the clock advances between them, every
\* authenticated request is sent with headers built after the check of
\* _get_headers; the check calls authenticate() when no token is held or the
\* recorded expiry is within an hour, and only then; authenticate() records
\* the time plus nine days; so no request carries a token whose recorded
\* expiry was less than an hour away when its headers were built.
TokenFreshness == []FreshWhenSent /\ [][CheckDecides]_vars

\* A request goes out with a token obtained at the very hour at which the
\* token of the first hour came within an hour of its recorded expiry.
TokenFreshnessWitness ==
  /\ api_pc = "send"
  /\ op \in SingleRequests
  /\ headers # <<>>
  /\ headers[1].token # <<>>
  /\ headers[1].built = 215
  /\ headers[1].expiry = <<431>>
  /\ calls = 2

(***************************************************************************)
(* Properties of the two entry points side by side (SpecEntry).            *)
(***************************************************************************)
\* Every datetime.now() of the two calls of sort_labels showed the same day.
SameProcessingDate == Cardinality(dates_read \cup Range(inv.days)) <= 1

\* The file names and label counts of a summary list, in its order.
NamesAndCounts(entries) ==
  [k \in DOMAIN entries |-> <<entries[k].file, entries[k].labels>>]

\* C21. Entry-point equivalence: a helper function of label_sorter.py and
\* its copy in app.py (normalize_courier, normalize_sku, extract_label_info)
\* return equal results on every argument and day; and when the batch
\* sort_labels and the interactive sort_labels have both returned on the same
\* sequence of page texts and have read the same processing date, they have
\* formed the same groups, written the same file names in the same order,
\* list the same file names and label counts in the same order, and report
\* the same total page count.
EntryPointEquivalence ==
  /\ fn = "normalize_courier" => ret = <<app_normalize_courier(arg)>>
  /\ fn = "app.normalize_courier" => ret = <<normalize_courier(arg)>>
  /\ fn = "normalize_sku" => ret = <<app_normalize_sku(arg)>>
  /\ fn = "app.normalize_sku" => ret = <<normalize_sku(arg)>>
  /\ fn = "extract_label_info" => ret = <<app_extract_label_info(arg, Calendar[clock])>>
  /\ fn = "app.extract_label_info" => ret = <<extract_label_info(arg, Calendar[clock])>>
  /\ (pc = "done" /\ inv.pc = "done" /\ SameProcessingDate) =>
       /\ Range(groups) = Range(heap[inv.groups])
       /\ written = [k \in DOMAIN inv.zf |-> inv.zf[k].name]
       /\ NamesAndCounts(returned[1].files) = NamesAndCounts(inv.returned[1].results)
       /\ returned[1].total_labels = inv.returned[1].total_pages

\* Both forms have returned on a document of two pages that fall into two
\* groups, one of them dated by the day of the run and holding a SKU that
\* normalize_sku had to change; both read that same day.
EntryPointEquivalenceWitness ==
  /\ pc = "done"
  /\ inv.pc = "done"
  /\ Cardinality(dates_read \cup Range(inv.days)) = 1
  /\ returned[1].total_labels = 2
  /\ Len(returned[1].files) = 2
  /\ Len(inv.returned[1].results) = 2
  /\ \E e \in Range(inv.returned[1].results) :
       /\ e.date = strftime(Calendar[clock])
       /\ e.sku = <<"Z","-","9">>
       /\ e.labels = 1

====
